---- MODULE Spec2Model ----
(***************************************************************************)
(* DeConflict (pCloudSync-deconflict.py): repeated runs of main() over one *)
(* scan directory and one ledger file.  A run scans the directory for      *)
(* conflicted pairs, compares each pair, deletes identical conflicted      *)
(* copies, optionally resolves differing pairs interactively, and merges   *)
(* the differing pairs into the persisted ledger.  Between runs, and while *)
(* a run waits in input() for an answer, the user deletes files.           *)
(*                                                                         *)
(* A file name is a sequence of tokens; the token Marker stands for the    *)
(* literal substring " [conflicted]".  A file's content is a sequence of   *)
(* bytes.  The file system is a function from the names of the existing    *)
(* files to their content.  Timestamps are the value of the clock `now`,   *)
(* which advances between runs; 0 stands for a field that is not present.  *)
(***************************************************************************)
EXTENDS Integers, Sequences, FiniteSets, TLC

VARIABLES
    fs,               \* the scan directory: existing file name -> content
    ledger,           \* the ledger file (args.output)
    now,              \* datetime.now() of the current run
    pc,               \* position of main(): idle, compare, confirm, preview, resolve,
                      \* choose, prune, save, done
    args,             \* parsed command line of the current run
    pairs,            \* main: pairs not yet compared
    different_files,  \* main: comparison results of the differing pairs
    idx,              \* resolve_conflicts: 1-based loop position
    resolved_count,   \* resolve_conflicts: resolved_count
    answer,           \* the last answer read from the user by input()
    fs0,              \* history: the names that existed when the run started
    ledger0,          \* history: the ledger file when the run started
    unvisited,        \* history: the pairs behind the one at which the user quit
    preview,          \* output: the pairs resolve_conflicts_dry_run has presented
    shown,            \* history: the content of the two files of the conflict at
                      \* whose prompt resolve_conflicts waits
    env_ops,          \* number of files the user has deleted, between runs and during prompts
    identical_count,  \* main: identical_count
    different_count,  \* main: different_count
    errors,           \* output: the pairs reported by "Error comparing ..."
    main_result,      \* main: result, the value of the last compare_files that returned
    disk,             \* the tree find_conflicted_pairs is called on
    params,           \* find_conflicted_pairs: recursive, cross_device, include_local_mounts
    scan_pc,          \* position of find_conflicted_pairs: call, walk, iterdir, returned
    cloud_mounts,     \* find_conflicted_pairs: cloud_mounts
    start_device,     \* find_conflicted_pairs: start_device (0 is None)
    todo,             \* os.walk: the directories still to be walked, next one first
    visited,          \* os.walk: the directories yielded so far
    excluded,         \* output: the directories reported as skipped
    conflicted_pairs, \* find_conflicted_pairs: conflicted_pairs
    skipped_paths,    \* find_conflicted_pairs: skipped_paths
    raised,           \* history: the paths on which a file system call raised
    cmp_pc,           \* position of a call of compare_files: call, returned
    cmp_result,       \* compare_files: result
    content_reads,    \* history: the files whose content compare_files has read
    mtimes,           \* compare_files: st_mtime of file1 and file2
    load_pc,          \* position of a call of load_existing_conflicts or of
                      \* save_different_files_list: call, loaded, saved
    loaded,           \* load_existing_conflicts: the returned dict
    load_warned       \* output: "Warning: Could not load existing conflicts
                      \* file" has been printed

tallyvars == <<identical_count, different_count, errors>>

mainvars == <<fs, ledger, now, pc, args, pairs, different_files, idx,
              resolved_count, answer, fs0, ledger0, unvisited, preview, env_ops,
              identical_count, different_count, errors,
              main_result, shown>>

scanvars == <<disk, params, scan_pc, cloud_mounts, start_device, todo, visited,
              excluded, conflicted_pairs, skipped_paths, raised>>

cmpvars == <<cmp_pc, cmp_result, content_reads, mtimes>>

loadvars == <<load_pc, loaded, load_warned>>

vars == <<mainvars, scanvars, cmpvars, loadvars>>

----------------------------------------------------------------------------
(* Bounds of the model *)

\* Number of program runs explored.
MaxRuns == 3

\* Number of files the user deletes, between runs and during prompts, over all runs.
MaxEnvOps == 2

\* Length of the files compare_files is called on.
MaxLen == 2

----------------------------------------------------------------------------
(* File names and contents *)

Marker == " [conflicted]"

NameA   == <<"a">>
NameAC  == <<"a", Marker>>
NameACC == <<"a", Marker, Marker>>
NameB   == <<"b">>
NameBC  == <<"b", Marker>>
\* a name of two characters, and the names that hold the marker once, in the
\* middle or at the end
NameAX  == <<"a", "x">>
NameACX == <<"a", Marker, "x">>
NameAXC == <<"a", "x", Marker>>

FileNames == {NameA, NameAC, NameACC, NameB, NameBC, NameAX, NameACX, NameAXC}

\* Two contents of the same size.
Contents == {<<1>>, <<2>>}

\* The contents of up to MaxLen bytes.
FileContents == UNION {[1..n -> {1, 2}] : n \in 0..MaxLen}

Methods == {"hash", "byte"}

\* The --method values the runs are started with.
RunMethods == {"hash"}

\* The scan directory before the first run is one of these:
\* two differing pairs with different originals;
DirTwoKeys ==
    [p \in {NameA, NameAC, NameB, NameBC} |->
        IF p \in {NameA, NameB} THEN <<1>> ELSE <<2>>]
\* two conflicted copies of the same original, both differing from it;
DirSharedOriginal ==
    [p \in {NameA, NameAC, NameACC} |-> IF p = NameA THEN <<1>> ELSE <<2>>]
\* an identical pair and a differing pair.
DirIdentical ==
    [p \in {NameA, NameAC, NameB, NameBC} |->
        IF p = NameBC THEN <<2>> ELSE <<1>>]

InitialDirs == {DirTwoKeys, DirSharedOriginal, DirIdentical}

\* A directory with a file and two copies of it whose names hold the marker
\* once, at different places.
DirMidMarker ==
    [p \in {NameAX, NameACX, NameAXC} |-> IF p = NameAX THEN <<1>> ELSE <<2>>]

\* A directory with three differing pairs, two of them with the same original.
DirThree ==
    [p \in {NameA, NameAC, NameACC, NameB, NameBC} |->
        IF p \in {NameA, NameB} THEN <<1>> ELSE <<2>>]

Exists(f, p) == p \in DOMAIN f

\* Path.unlink()
Unlink(f, p) == [q \in (DOMAIN f) \ {p} |-> f[q]]

\* Path.rename(): the source's content appears at the target, the source is gone
Rename(f, src, dst) ==
    [q \in ((DOMAIN f) \ {src}) \cup {dst} |-> IF q = dst THEN f[src] ELSE f[q]]

----------------------------------------------------------------------------
(* find_conflicted_pairs *)

\* `" [conflicted]" in filename`
HasMarker(filename) == \E i \in DOMAIN filename : filename[i] = Marker

\* `filename.replace(" [conflicted]", "")`: str.replace without a count
\* removes every occurrence.
OriginalName(filename) == SelectSeq(filename, LAMBDA t : t # Marker)

\* All orders in which a directory listing may enumerate the names in S.
RECURSIVE Listings(_)
Listings(S) ==
    IF S = {} THEN {<<>>}
    ELSE UNION {{<<x>> \o l : l \in Listings(S \ {x})} : x \in S}

\* The loop over `files` of one directory: a pair is appended for each name
\* that holds the marker and whose original exists and is a regular file.
RECURSIVE FindConflictedPairs(_, _)
FindConflictedPairs(files, f) ==
    IF files = <<>> THEN <<>>
    ELSE LET filename == Head(files)
             rest     == FindConflictedPairs(Tail(files), f)
         IN  IF HasMarker(filename) /\ Exists(f, OriginalName(filename))
             THEN <<[original |-> OriginalName(filename),
                     conflicted |-> filename]>> \o rest
             ELSE rest

----------------------------------------------------------------------------
(* The tree find_conflicted_pairs walks: paths, devices, mounts *)

\* A path is a sequence of tokens: Sep is the character "/", the other tokens
\* are the characters of the names (a file name may hold the token Marker).
Sep == "/"

\* The literal substrings is_under_cloud_storage looks for.
MobileDocuments == "/Library/Mobile Documents"
CloudStorage    == "/Library/CloudStorage"

Root  == <<Sep, "r">>
DirC  == <<Sep, "r", Sep, "c">>
DirCS == <<Sep, "r", Sep, "c", Sep, "s">>
DirC2 == <<Sep, "r", Sep, "c", "2">>
DirM  == <<Sep, "r", Sep, "m">>
DirG  == <<Sep, "r", Sep, "g">>
DirHC == <<Sep, "r", Sep, "h", Marker>>

NameG  == <<"g">>
NameGC == <<"g", Marker>>
NameH  == <<"h">>
NameHC == <<"h", Marker>>

\* `current_dir / filename`
Join(dir, name) == dir \o <<Sep>> \o name

\* A tree is a function from its directories to the names of the regular
\* files and of the subdirectories each one holds.
NoEntries == [files |-> {}, dirs |-> {}]

\* One directory: a file, its conflicted copy, and a conflicted copy of that.
TreeMarkers ==
    [d \in {Root} |-> [files |-> {NameA, NameAC, NameACC}, dirs |-> {}]]

\* One directory: a conflicted file without an original, a conflicted file
\* whose original is a directory, and a directory whose name holds the marker.
TreeKinds ==
    [d \in {Root, DirG, DirHC} |->
        IF d = Root
        THEN [files |-> {NameBC, NameGC, NameH}, dirs |-> {NameG, NameHC}]
        ELSE NoEntries]

\* A root with three subdirectories, one of them with a subdirectory of its
\* own; every directory holds one pair.
TreeBoundary ==
    [d \in {Root, DirC, DirCS, DirC2, DirM} |->
        [files |-> {NameA, NameAC},
         dirs  |-> IF d = Root THEN {<<"c">>, <<"c", "2">>, <<"m">>}
                   ELSE IF d = DirC THEN {<<"s">>}
                   ELSE {}]]

Devices == {1, 2}

\* The directory the scan is called on.
ScanRoot == Root

\* The trees the scanner is called on.  stat_err holds the paths on which
\* stat() raises PermissionError, unreadable the directories that cannot be
\* listed, mounts the result of get_mount_points(), dev the st_dev of each
\* directory.
Disks ==
    {[tree |-> TreeMarkers, dev |-> [d \in {Root} |-> 1], mounts |-> {},
      unreadable |-> u, stat_err |-> e] :
        u \in {{}, {Root}},
        e \in {{}} \cup {{Join(Root, n)} : n \in {NameA, NameAC, NameACC}}}
    \cup
    {[tree |-> TreeKinds, dev |-> [d \in {Root, DirG, DirHC} |-> 1],
      mounts |-> {}, unreadable |-> u, stat_err |-> e] :
        u \in {{}, {DirG}},
        e \in {{}, {Join(Root, NameH)}}}
    \cup
    {[tree |-> TreeBoundary,
      dev |-> [d \in {Root, DirC, DirCS, DirC2, DirM} |->
                  IF d = DirC THEN dc ELSE IF d = DirCS THEN ds
                  ELSE IF d = DirM THEN dm ELSE 1],
      mounts |-> m, unreadable |-> {}, stat_err |-> {}] :
        dc \in Devices, ds \in Devices, dm \in Devices,
        m \in {{}, {DirC}, {Root}}}

NoDisk == [tree |-> <<>>, dev |-> <<>>, mounts |-> {}, unreadable |-> {},
           stat_err |-> {}]

\* Path.is_file() on a path whose stat() does not raise
IsFile(dk, p) ==
    \E d \in DOMAIN dk.tree : \E n \in dk.tree[d].files : p = Join(d, n)

\* get_mount_points(): the mount table and the home directory are inputs.
GetMountPoints(dk) == dk.mounts

\* str.startswith
StartsWith(str, prefix) ==
    /\ Len(prefix) <= Len(str)
    /\ SubSeq(str, 1, Len(prefix)) = prefix

\* is_under_cloud_storage
IsUnderCloudStorage(path, mount_points) ==
    \/ \E i \in DOMAIN path : path[i] = MobileDocuments
    \/ \E i \in DOMAIN path : path[i] = CloudStorage
    \/ \E mount \in mount_points : StartsWith(path, mount)

\* Line 104
CloudMounts(dk, cross_device) ==
    IF cross_device THEN {} ELSE GetMountPoints(dk)

\* Lines 160-163
StartDevice(dk, directory) ==
    IF directory \in dk.stat_err THEN 0 ELSE dk.dev[directory]

\* Mutant of SkipCloud: the directory is skipped whenever a mount is known.
SkipCloudAnyMount(dk, prm, mounts, root) ==
    /\ ~prm.cross_device
    /\ mounts # {}

\* Lines 172-184: the directory is skipped as cloud storage.
SkipCloud(dk, prm, mounts, root) ==
    /\ ~prm.cross_device
    /\ IsUnderCloudStorage(root, mounts)

\* Mutant of SkipDevice: include_local_mounts is not looked at.
SkipDeviceAlways(dk, prm, start, root) ==
    /\ ~prm.cross_device
    /\ start # 0
    /\ root \notin dk.stat_err
    /\ dk.dev[root] # start

\* Lines 186-201: the directory is skipped as a mount point.
SkipDevice(dk, prm, start, root) ==
    /\ ~prm.cross_device
    /\ ~prm.include_local_mounts
    /\ start # 0
    /\ root \notin dk.stat_err
    /\ dk.dev[root] # start

\* Mutant of WalkInto: os.walk still descends below a skipped directory.
WalkIntoAlways(skip, subdirs) == subdirs

\* Lines 177 and 192, `dirs[:] = []`: the subdirectories os.walk descends into.
WalkInto(skip, subdirs) == IF skip THEN <<>> ELSE subdirs

NoResult == [pairs |-> <<>>, skipped |-> <<>>, raised |-> <<>>]

\* Lines 206-223: the loop over the files of one directory of the walk.
RECURSIVE WalkFiles(_, _, _, _)
WalkFiles(dk, current_dir, files, acc) ==
    IF files = <<>> THEN acc
    ELSE LET filename        == Head(files)
             conflicted_file == Join(current_dir, filename)
             original_file   == Join(current_dir, OriginalName(filename))
             next ==
                IF ~HasMarker(filename) THEN acc
                ELSE IF original_file \in dk.stat_err
                THEN [acc EXCEPT
                        !.skipped = Append(@, [path |-> original_file,
                                               error |-> "PermissionError"]),
                        !.raised = Append(@, original_file)]
                ELSE IF IsFile(dk, original_file)
                THEN [acc EXCEPT
                        !.pairs = Append(@, [original |-> original_file,
                                             conflicted |-> conflicted_file])]
                ELSE acc
         IN  WalkFiles(dk, current_dir, Tail(files), next)

\* Lines 226-239: the loop over path.iterdir(); the try encloses the whole
\* loop, so the first call that raises ends it.
RECURSIVE IterDir(_, _, _, _)
IterDir(dk, path, items, acc) ==
    IF items = <<>> THEN acc
    ELSE LET item          == Join(path, Head(items))
             original_file == Join(path, OriginalName(Head(items)))
         IN  IF item \in dk.stat_err
             THEN [acc EXCEPT
                     !.skipped = Append(@, [path |-> path,
                                            error |-> "PermissionError"]),
                     !.raised = Append(@, item)]
             ELSE IF ~(IsFile(dk, item) /\ HasMarker(Head(items)))
             THEN IterDir(dk, path, Tail(items), acc)
             ELSE IF original_file \in dk.stat_err
             THEN [acc EXCEPT
                     !.skipped = Append(@, [path |-> path,
                                            error |-> "PermissionError"]),
                     !.raised = Append(@, original_file)]
             ELSE IF IsFile(dk, original_file)
             THEN IterDir(dk, path, Tail(items),
                          [acc EXCEPT
                             !.pairs = Append(@, [original |-> original_file,
                                                  conflicted |-> item])])
             ELSE IterDir(dk, path, Tail(items), acc)

----------------------------------------------------------------------------
(* get_file_hash, compare_files *)

\* Mutant of GetFileHash: a digest that depends on the length only.
GetFileHashLengthOnly(c) == Len(c) + 1

\* SHA-256 as an injective encoding of the byte sequence (never 0).
RECURSIVE GetFileHash(_)
GetFileHash(c) ==
    IF c = <<>> THEN 1
    ELSE 4 * GetFileHash(SubSeq(c, 1, Len(c) - 1)) + c[Len(c)]

\* filecmp.cmp(shallow=False)
ByteEqual(c1, c2) ==
    /\ Len(c1) = Len(c2)
    /\ \A i \in 1..Len(c1) : c1[i] = c2[i]

\* The files get_file_hash or filecmp.cmp open and read in compare_files:
\* none when the sizes differ (the return of line 279 comes first), both
\* otherwise.
FilesRead(f, file1, file2, method) ==
    IF Len(f[file1]) # Len(f[file2]) THEN {} ELSE {file1, file2}

\* Mutant of CompareFiles: the sizes are not compared first.
CompareFilesNoFastPath(f, file1, file2, method) ==
    LET h1   == GetFileHash(f[file1])
        h2   == GetFileHash(f[file2])
        same == ByteEqual(f[file1], f[file2])
    IN  [original |-> file1, conflicted |-> file2,
         identical |-> IF method = "hash" THEN h1 = h2 ELSE same,
         method |-> method,
         original_size |-> Len(f[file1]), conflicted_size |-> Len(f[file2]),
         original_hash |-> IF method = "hash" THEN h1 ELSE 0,
         conflicted_hash |-> IF method = "hash" THEN h2 ELSE 0,
         reason |-> IF (IF method = "hash" THEN h1 = h2 ELSE same)
                    THEN "Files are identical"
                    ELSE IF method = "hash"
                    THEN "Different content (hash mismatch)"
                    ELSE "Different content (byte comparison)"]

CompareFiles(f, file1, file2, method) ==
    LET size1 == Len(f[file1])
        size2 == Len(f[file2])
        base  == [original |-> file1, conflicted |-> file2, identical |-> FALSE,
                  method |-> method,
                  original_size |-> size1, conflicted_size |-> size2,
                  original_hash |-> 0, conflicted_hash |-> 0,
                  reason |-> "none"]
    IN  IF size1 # size2
        THEN [base EXCEPT !.reason = "Different file sizes"]
        ELSE IF method = "hash"
        THEN LET h1 == GetFileHash(f[file1])
                 h2 == GetFileHash(f[file2])
             IN  [base EXCEPT !.original_hash = h1, !.conflicted_hash = h2,
                              !.identical = (h1 = h2),
                              !.reason = IF h1 = h2 THEN "Files are identical"
                                         ELSE "Different content (hash mismatch)"]
        ELSE LET same == ByteEqual(f[file1], f[file2])
             IN  [base EXCEPT !.identical = same,
                              !.reason = IF same THEN "Files are identical"
                                         ELSE "Different content (byte comparison)"]

\* The modification times stat() can report for a file.
MTimes == {1, 2}

\* compare_files with the four stat() fields of lines 268-271: the sizes are
\* in CompareFiles, the modification times (isoformat of st_mtime) are added
\* here.  The ledger of the run model keeps the records without them.
CompareFilesStat(f, mt, file1, file2, method) ==
    CompareFiles(f, file1, file2, method)
        @@ [original_mtime |-> mt[file1], conflicted_mtime |-> mt[file2]]

----------------------------------------------------------------------------
(* The ledger: load_existing_conflicts, validate_conflict_still_exists,    *)
(* save_different_files_list                                               *)

NoLedger == [exists |-> FALSE, last_updated |-> 0,
             total_active_conflicts |-> 0, total_resolved_conflicts |-> 0,
             conflicts |-> <<>>]

KeysOf(conflicts) == {conflicts[i].original : i \in DOMAIN conflicts}

\* Mutant of DictSet: the record is appended whether or not the key is known.
DictAppend(d, conflict) == Append(d, conflict)

\* Mutant of DictSet: a key that is already there keeps its value.
DictSetKeepFirst(d, conflict) ==
    IF \E i \in DOMAIN d : d[i].original = conflict.original
    THEN d
    ELSE Append(d, conflict)

\* `existing_conflicts[key] = conflict` on an insertion-ordered dict, held as
\* the sequence of its values: an existing key keeps its place and gets the
\* new value, a new key goes to the end.
DictSet(d, conflict) ==
    IF \E i \in DOMAIN d : d[i].original = conflict.original
    THEN [i \in DOMAIN d |->
            IF d[i].original = conflict.original THEN conflict ELSE d[i]]
    ELSE Append(d, conflict)

RECURSIVE DictSetAll(_, _)
DictSetAll(d, conflicts) ==
    IF conflicts = <<>> THEN d
    ELSE DictSetAll(DictSet(d, Head(conflicts)), Tail(conflicts))

\* json.load raises on a file that is not a JSON document (such a file has
\* the field `invalid` in place of the keys of a document).
JsonLoadRaises(file) == "invalid" \in DOMAIN file

\* Mutant of DataGet: the legacy key is not read.
DataGetConflictsOnly(data) ==
    IF "conflicts" \in DOMAIN data THEN data.conflicts ELSE <<>>

\* data.get('conflicts', data.get('files', [])), line 314
DataGet(data) ==
    IF "conflicts" \in DOMAIN data THEN data.conflicts
    ELSE IF "files" \in DOMAIN data THEN data.files
    ELSE <<>>

\* The body of the try of lines 310-318 raises: json.load fails, or
\* conflict['original'] fails on a record without that key.
LoadBodyRaises(file) ==
    \/ JsonLoadRaises(file)
    \/ /\ ~JsonLoadRaises(file)
       /\ \E i \in DOMAIN DataGet(file) : "original" \notin DOMAIN DataGet(file)[i]

\* The warning of line 320 is printed.
LoadWarns(file) == file.exists /\ LoadBodyRaises(file)

LoadExistingConflicts(file) ==
    IF ~file.exists THEN <<>>
    ELSE IF LoadBodyRaises(file) THEN <<>>
    ELSE DictSetAll(<<>>, DataGet(file))

\* Mutant of ValidateConflictStillExists: `or` in place of `and`.
ValidateEitherExists(conflict, f) ==
    Exists(f, conflict.original) \/ Exists(f, conflict.conflicted)

ValidateConflictStillExists(conflict, f) ==
    Exists(f, conflict.original) /\ Exists(f, conflict.conflicted)

\* Mutant of NewRecord: still_exists is not set on the new record.
NewRecordNotActive(result, t) ==
    [original |-> result.original, conflicted |-> result.conflicted,
     identical |-> result.identical, method |-> result.method,
     original_size |-> result.original_size,
     conflicted_size |-> result.conflicted_size,
     original_hash |-> result.original_hash,
     conflicted_hash |-> result.conflicted_hash,
     reason |-> result.reason,
     last_seen |-> t, still_exists |-> FALSE,
     last_checked |-> 0, resolved_at |-> 0]

\* Lines 338-342: a comparison result becomes a fresh ledger record.
NewRecord(result, t) ==
    [original |-> result.original, conflicted |-> result.conflicted,
     identical |-> result.identical, method |-> result.method,
     original_size |-> result.original_size,
     conflicted_size |-> result.conflicted_size,
     original_hash |-> result.original_hash,
     conflicted_hash |-> result.conflicted_hash,
     reason |-> result.reason,
     last_seen |-> t, still_exists |-> TRUE,
     last_checked |-> 0, resolved_at |-> 0]

RECURSIVE UpsertNew(_, _, _)
UpsertNew(d, results, t) ==
    IF results = <<>> THEN d
    ELSE UpsertNew(DictSet(d, NewRecord(Head(results), t)), Tail(results), t)

\* Lines 345-352: one record that this run did not observe.
Revalidate(conflict, f, t) ==
    IF ValidateConflictStillExists(conflict, f)
    THEN [conflict EXCEPT !.still_exists = TRUE, !.last_checked = t]
    ELSE [conflict EXCEPT !.still_exists = FALSE, !.resolved_at = t]

\* Mutant of CheckOld: the records this run did not observe are left as loaded.
CheckOldSkipped(d, results, f, t) == d

CheckOld(d, results, f, t) ==
    [i \in DOMAIN d |->
        IF d[i].original \notin KeysOf(results)
        THEN Revalidate(d[i], f, t)
        ELSE d[i]]

ActiveConflicts(d) == SelectSeq(d, LAMBDA c : c.still_exists)

\* Mutant of Snapshot: only the active conflicts are written.
SnapshotActiveOnly(d, t) ==
    [exists |-> TRUE, last_updated |-> t,
     total_active_conflicts |-> Len(ActiveConflicts(d)),
     total_resolved_conflicts |-> Len(d) - Len(ActiveConflicts(d)),
     conflicts |-> ActiveConflicts(d)]

\* The snapshot written by json.dump
Snapshot(d, t) ==
    [exists |-> TRUE, last_updated |-> t,
     total_active_conflicts |-> Len(ActiveConflicts(d)),
     total_resolved_conflicts |-> Len(d) - Len(ActiveConflicts(d)),
     conflicts |-> d]

\* Mutant of SaveDifferentFilesList: the totals are taken before the old
\* records are re-validated.
SaveCountsFirst(results, file, f, t) ==
    LET merged == UpsertNew(LoadExistingConflicts(file), results, t)
    IN  [Snapshot(CheckOld(merged, results, f, t), t) EXCEPT
            !.total_active_conflicts = Len(ActiveConflicts(merged)),
            !.total_resolved_conflicts = Len(merged) - Len(ActiveConflicts(merged))]

SaveDifferentFilesList(results, file, f, t) ==
    Snapshot(CheckOld(UpsertNew(LoadExistingConflicts(file), results, t),
                      results, f, t), t)

----------------------------------------------------------------------------
(* main: the comparison pass *)

NoArgs == [dry_run |-> FALSE, auto_delete |-> FALSE, resolve |-> FALSE,
           method |-> "hash"]

\* confirm_deletion
ConfirmDeletion(response) == response \in {"y", "yes"}

\* Mutant of ShouldDelete: deletion no longer waits for the confirmation.
ShouldDeleteUnasked(a, response) == ~a.dry_run

\* Lines 728-739
ShouldDelete(a, response) ==
    IF a.dry_run THEN FALSE
    ELSE IF a.auto_delete THEN TRUE
    ELSE ConfirmDeletion(response)

\* Mutant of DeleteIdentical: dry-run no longer holds the deletion back.
DeleteIdenticalInDryRun(f, a, result, response, unlink_ok) ==
    IF result.identical /\ (a.dry_run \/ ShouldDelete(a, response)) /\ unlink_ok
    THEN Unlink(f, result.conflicted)
    ELSE f

\* Lines 741-752: the file system after the handling of one compared pair.
DeleteIdentical(f, a, result, response, unlink_ok) ==
    IF result.identical /\ ShouldDelete(a, response) /\ ~a.dry_run /\ unlink_ok
    THEN Unlink(f, result.conflicted)
    ELSE f

\* Lines 780-787: where main goes after the comparison pass.
AfterCompare(a, df) ==
    IF a.resolve /\ df # <<>>
    THEN IF a.dry_run THEN "preview" ELSE "resolve"
    ELSE "save"

----------------------------------------------------------------------------
(* resolve_conflicts *)

Actions == {"keep_original", "keep_conflicted", "skip", "quit"}

\* Mutant of KeepOriginal: the original is removed, not the conflicted file.
KeepOriginalWrongFile(f, conflict, unlink_ok) ==
    IF unlink_ok THEN Unlink(f, conflict.original) ELSE f

\* Lines 579-585
KeepOriginal(f, conflict, unlink_ok) ==
    IF unlink_ok THEN Unlink(f, conflict.conflicted) ELSE f

\* Mutant of KeepConflicted: the conflicted file is removed, not the original.
KeepConflictedWrongFile(f, conflict, unlink_ok, rename_ok) ==
    IF unlink_ok /\ rename_ok THEN Unlink(f, conflict.conflicted) ELSE f

\* Lines 587-595: original.unlink(), then conflicted.rename(parent / original.name)
KeepConflicted(f, conflict, unlink_ok, rename_ok) ==
    IF ~unlink_ok THEN f
    ELSE IF ~rename_ok THEN Unlink(f, conflict.original)
    ELSE Rename(Unlink(f, conflict.original), conflict.conflicted, conflict.original)

\* Lines 583 and 593: `resolved_count += 1` is reached only when no file
\* operation of the action raised.
Counted(act, unlink_ok, rename_ok) ==
    \/ act = "keep_original" /\ unlink_ok
    \/ act = "keep_conflicted" /\ unlink_ok /\ rename_ok

\* Mutant of LoopEnds: `quit` no longer breaks out of the loop.
LoopEndsAtLastOnly(act, unlink_ok, rename_ok, i, df) == i = Len(df)

\* Mutant of LoopEnds: a failed file operation ends the loop.
LoopEndsOnFailure(act, unlink_ok, rename_ok, i, df) ==
    \/ act = "quit"
    \/ i = Len(df)
    \/ act \in {"keep_original", "keep_conflicted"} /\ ~(unlink_ok /\ rename_ok)

\* Lines 566 and 601-603: the loop ends after the last conflict or at `quit`;
\* the except clauses of lines 584 and 594 fall through to the next iteration.
LoopEnds(act, unlink_ok, rename_ok, i, df) ==
    \/ act = "quit"
    \/ i = Len(df)

\* Lines 792-793
BothExist(df, f) ==
    SelectSeq(df, LAMBDA c : Exists(f, c.original) /\ Exists(f, c.conflicted))

----------------------------------------------------------------------------
(* The state machine *)

\* The value of cmp_result before compare_files has returned.
NoComparison == [original |-> <<>>, conflicted |-> <<>>, identical |-> FALSE,
                 method |-> "none", original_size |-> 0, conflicted_size |-> 0,
                 original_hash |-> 0, conflicted_hash |-> 0, reason |-> "none"]

\* resolve_conflicts is not waiting at a prompt.
NoShown == [original |-> <<>>, conflicted |-> <<>>]

\* No call of compare_files is being followed.
CompareIdle ==
    /\ cmp_pc = "none"
    /\ cmp_result = NoComparison
    /\ content_reads = {}
    /\ mtimes = <<>>

\* No call of load_existing_conflicts is being followed.
LoadIdle ==
    /\ load_pc = "none"
    /\ loaded = <<>>
    /\ load_warned = FALSE

\* find_conflicted_pairs is not being followed.
ScanIdle ==
    /\ disk = NoDisk
    /\ params = [recursive |-> FALSE, cross_device |-> FALSE,
                 include_local_mounts |-> FALSE]
    /\ scan_pc = "none"
    /\ cloud_mounts = {}
    /\ start_device = 0
    /\ todo = <<>>
    /\ visited = <<>>
    /\ excluded = <<>>
    /\ conflicted_pairs = <<>>
    /\ skipped_paths = <<>>
    /\ raised = <<>>

Init ==
    /\ ScanIdle
    /\ LoadIdle
    /\ CompareIdle
    /\ fs \in InitialDirs
    /\ env_ops = 0
    /\ identical_count = 0
    /\ different_count = 0
    /\ errors = <<>>
    /\ main_result = NoComparison
    /\ shown = NoShown
    /\ ledger = NoLedger
    /\ now = 1
    /\ pc = "idle"
    /\ args = NoArgs
    /\ pairs = <<>>
    /\ different_files = <<>>
    /\ idx = 0
    /\ resolved_count = 0
    /\ answer = "none"
    /\ fs0 = {}
    /\ ledger0 = NoLedger
    /\ unvisited = {}
    /\ preview = <<>>

\* The positions at which main is not running: between two runs, and inside
\* input() at line 302 (confirm_deletion) and at line 484
\* (resolve_conflict_interactive).
Waits == {"idle", "confirm", "choose"}

\* The user deletes a file between runs or while a run waits for an answer.
EnvDelete(p) ==
    /\ pc \in Waits
    /\ now <= MaxRuns
    /\ env_ops < MaxEnvOps
    /\ Exists(fs, p)
    /\ fs' = Unlink(fs, p)
    /\ env_ops' = env_ops + 1
    /\ UNCHANGED <<ledger, now, pc, args, pairs, different_files, idx,
                   resolved_count, answer, fs0, ledger0, unvisited, preview>>
    /\ UNCHANGED <<scanvars, cmpvars, loadvars>>
    /\ UNCHANGED <<tallyvars, main_result, shown>>

\* main, lines 678-707: parse the arguments and scan; return if no pair is found.
StartRun(a, listing) ==
    /\ pc = "idle"
    /\ now <= MaxRuns
    /\ LET found == FindConflictedPairs(listing, fs)
       IN  /\ pairs' = found
           /\ pc' = IF found = <<>> THEN "done" ELSE "compare"
    /\ args' = a
    /\ fs0' = DOMAIN fs
    /\ ledger0' = ledger
    /\ UNCHANGED <<fs, ledger, now, different_files, idx, resolved_count, answer,
                   unvisited, preview, env_ops>>
    /\ UNCHANGED <<scanvars, cmpvars, loadvars>>
    /\ UNCHANGED <<tallyvars, main_result, shown>>

\* Mutant of RemainingPairs: an exception ends the loop.
RemainingPairsAbort(raises, ps) == IF raises THEN <<>> ELSE Tail(ps)

\* main, lines 710 and 775-777: the pairs the loop still has to compare after
\* one iteration, whether it ended normally or in the except clause.
RemainingPairs(raises, ps) == Tail(ps)

\* main, lines 710-777: one iteration of the comparison loop, up to its end
\* or, when the deletion of an identical copy has to be confirmed (line 739),
\* up to the input() of confirm_deletion (line 302), where main waits.
CompareStep(readable, unlink_ok) ==
    /\ pc = "compare"
    /\ LET p      == Head(pairs)
           raises == \/ ~readable
                     \/ ~Exists(fs, p.original)
                     \/ ~Exists(fs, p.conflicted)
           res    == CompareFiles(fs, p.original, p.conflicted, args.method)
           asks   == /\ ~raises
                     /\ res.identical
                     /\ ~args.dry_run
                     /\ ~args.auto_delete
           df     == IF ~raises /\ ~res.identical
                     THEN Append(different_files, res)
                     ELSE different_files
       IN  /\ fs' = IF raises \/ asks THEN fs
                    ELSE DeleteIdentical(fs, args, res, "none", unlink_ok)
           /\ main_result' = IF raises THEN main_result ELSE res
           /\ different_files' = df
           /\ identical_count' = IF ~raises /\ res.identical
                                 THEN identical_count + 1 ELSE identical_count
           /\ different_count' = IF ~raises /\ ~res.identical
                                 THEN different_count + 1 ELSE different_count
           /\ errors' = IF raises THEN Append(errors, p) ELSE errors
           /\ pairs' = IF asks THEN pairs ELSE RemainingPairs(raises, pairs)
           /\ pc' = IF asks THEN "confirm"
                    ELSE IF RemainingPairs(raises, pairs) # <<>> THEN "compare"
                    ELSE AfterCompare(args, df)
    /\ answer' = "none"
    /\ idx' = 1
    /\ UNCHANGED <<ledger, now, args, resolved_count, fs0, ledger0, unvisited,
                   preview, env_ops, shown>>
    /\ UNCHANGED <<scanvars, cmpvars, loadvars>>

\* main, lines 739-754 and 710: from the return of input() in
\* confirm_deletion (line 302) to the end of the iteration.  conflicted.unlink()
\* (line 746) raises on a file that is no longer there; the except clause of
\* line 749 reports it and the loop goes on.
ConfirmStep(response, unlink_ok) ==
    /\ pc = "confirm"
    /\ fs' = DeleteIdentical(fs, args, main_result, response,
                             unlink_ok /\ Exists(fs, main_result.conflicted))
    /\ answer' = response
    /\ pairs' = RemainingPairs(FALSE, pairs)
    /\ pc' = IF RemainingPairs(FALSE, pairs) # <<>> THEN "compare"
             ELSE AfterCompare(args, different_files)
    /\ UNCHANGED <<ledger, now, args, different_files, idx, resolved_count, fs0,
                   ledger0, unvisited, preview, env_ops>>
    /\ UNCHANGED <<scanvars, cmpvars, loadvars>>
    /\ UNCHANGED <<tallyvars, main_result, shown>>

\* resolve_conflicts_dry_run, lines 518-548: the loop presents, in order, the
\* conflicts whose two files exist and reads no input.
DryRunPresented(df, f) ==
    SelectSeq(df, LAMBDA c : Exists(f, c.original) /\ Exists(f, c.conflicted))

\* resolve_conflicts_dry_run: prints, changes nothing.
ResolveDryRun ==
    /\ pc = "preview"
    /\ pc' = "save"
    /\ preview' = DryRunPresented(different_files, fs)
    /\ UNCHANGED <<fs, ledger, now, args, pairs, different_files, idx,
                   resolved_count, answer, fs0, ledger0, unvisited, env_ops>>
    /\ UNCHANGED <<scanvars, cmpvars, loadvars>>
    /\ UNCHANGED <<tallyvars, main_result, shown>>

\* resolve_conflicts, lines 566-577: the head of one iteration.  A conflict
\* with a file missing is skipped (lines 571-573); for any other one
\* resolve_conflict_interactive prompts and waits in input() (line 484).
ResolveStep ==
    /\ pc = "resolve"
    /\ idx <= Len(different_files)
    /\ LET conflict == different_files[idx]
           present  == Exists(fs, conflict.original) /\ Exists(fs, conflict.conflicted)
       IN  /\ pc' = IF present THEN "choose"
                    ELSE IF LoopEnds("none", TRUE, TRUE, idx, different_files)
                    THEN "prune" ELSE "resolve"
           /\ idx' = IF present THEN idx ELSE idx + 1
           /\ shown' = IF present
                       THEN [original |-> fs[conflict.original],
                             conflicted |-> fs[conflict.conflicted]]
                       ELSE shown
    /\ answer' = "none"
    /\ UNCHANGED <<fs, ledger, now, args, pairs, different_files, resolved_count,
                   fs0, ledger0, unvisited, preview, env_ops>>
    /\ UNCHANGED <<scanvars, cmpvars, loadvars>>
    /\ UNCHANGED <<tallyvars, main_result>>

\* resolve_conflicts, lines 577-603: from the return of
\* resolve_conflict_interactive (the input() of line 484 has returned one of
\* o, c, s, q; after d, v or any other answer it prompts again) to the end
\* of the iteration.  unlink and rename raise on a file that is no longer
\* there, so the files are looked up as they are now, not as they were at
\* the check of line 571.
ChoiceStep(action, unlink_ok, rename_ok) ==
    /\ pc = "choose"
    /\ LET conflict == different_files[idx]
           unlinks  == /\ unlink_ok
                       /\ Exists(fs, IF action = "keep_original"
                                     THEN conflict.conflicted
                                     ELSE conflict.original)
           renames  == rename_ok /\ Exists(fs, conflict.conflicted)
       IN  /\ fs' = CASE action = "keep_original" ->
                            KeepOriginal(fs, conflict, unlinks)
                      [] action = "keep_conflicted" ->
                            KeepConflicted(fs, conflict, unlinks, renames)
                      [] OTHER -> fs
           /\ resolved_count' =
                 IF Counted(action, unlinks, renames)
                 THEN resolved_count + 1 ELSE resolved_count
           /\ pc' = IF LoopEnds(action, unlinks, renames, idx, different_files)
                    THEN "prune" ELSE "resolve"
    /\ answer' = action
    /\ unvisited' = IF action = "quit"
                    THEN {different_files[j] :
                             j \in (idx + 1)..Len(different_files)}
                    ELSE unvisited
    /\ idx' = idx + 1
    /\ shown' = NoShown
    /\ UNCHANGED <<ledger, now, args, pairs, different_files, fs0, ledger0,
                   preview, env_ops>>
    /\ UNCHANGED <<scanvars, cmpvars, loadvars>>
    /\ UNCHANGED <<tallyvars, main_result>>

\* main, lines 787-794: after a live resolution pass.
Prune ==
    /\ pc = "prune"
    /\ different_files' = IF resolved_count > 0
                          THEN BothExist(different_files, fs)
                          ELSE different_files
    /\ different_count' = IF resolved_count > 0
                          THEN Len(BothExist(different_files, fs))
                          ELSE different_count
    /\ pc' = "save"
    /\ answer' = "none"
    /\ UNCHANGED <<fs, ledger, now, args, pairs, idx, resolved_count, fs0, ledger0,
                   unvisited, preview, env_ops>>
    /\ UNCHANGED <<scanvars, cmpvars, loadvars>>
    /\ UNCHANGED <<identical_count, errors, main_result, shown>>

\* main, lines 796-803; save_different_files_list loads the file first
\* (line 335), which prints the warning of line 320 on a file it cannot read.
Save ==
    /\ pc = "save"
    /\ ledger' = IF different_files # <<>> \/ ledger.exists
                 THEN SaveDifferentFilesList(different_files, ledger, fs, now)
                 ELSE ledger
    /\ load_warned' = IF different_files # <<>> \/ ledger.exists
                      THEN load_warned \/ LoadWarns(ledger)
                      ELSE load_warned
    /\ pc' = "done"
    /\ answer' = "none"
    /\ UNCHANGED <<fs, now, args, pairs, different_files, idx, resolved_count,
                   fs0, ledger0, unvisited, preview, env_ops>>
    /\ UNCHANGED <<scanvars, cmpvars, load_pc, loaded>>
    /\ UNCHANGED <<tallyvars, main_result, shown>>

\* The process exits; time passes until the next run.
Exit ==
    /\ pc = "done"
    /\ pc' = "idle"
    /\ now' = now + 1
    /\ args' = NoArgs
    /\ pairs' = <<>>
    /\ different_files' = <<>>
    /\ idx' = 0
    /\ resolved_count' = 0
    /\ answer' = "none"
    /\ fs0' = {}
    /\ ledger0' = NoLedger
    /\ unvisited' = {}
    /\ preview' = <<>>
    /\ identical_count' = 0
    /\ different_count' = 0
    /\ errors' = <<>>
    /\ main_result' = NoComparison
    /\ shown' = NoShown
    /\ UNCHANGED <<fs, ledger, env_ops>>
    /\ UNCHANGED <<scanvars, cmpvars, loadvars>>

ArgsSet == [dry_run : BOOLEAN, auto_delete : BOOLEAN, resolve : BOOLEAN,
            method : RunMethods]

Next ==
    \/ \E p \in FileNames : EnvDelete(p)
    \/ \E a \in ArgsSet : \E listing \in Listings(DOMAIN fs) : StartRun(a, listing)
    \/ \E readable \in BOOLEAN, unlink_ok \in BOOLEAN :
          CompareStep(readable, unlink_ok)
    \/ \E response \in {"y", "n"}, unlink_ok \in BOOLEAN :
          ConfirmStep(response, unlink_ok)
    \/ ResolveDryRun
    \/ ResolveStep
    \/ \E action \in Actions, unlink_ok \in BOOLEAN, rename_ok \in BOOLEAN :
          ChoiceStep(action, unlink_ok, rename_ok)
    \/ Prune
    \/ Save
    \/ Exit

Spec == Init /\ [][Next]_vars

\* The last two runs of main, on the directory with three differing pairs and
\* no ledger.
InitThree ==
    /\ ScanIdle
    /\ LoadIdle
    /\ CompareIdle
    /\ fs = DirThree
    /\ env_ops = 0
    /\ identical_count = 0
    /\ different_count = 0
    /\ errors = <<>>
    /\ main_result = NoComparison
    /\ shown = NoShown
    /\ ledger = NoLedger
    /\ now = MaxRuns - 1
    /\ pc = "idle"
    /\ args = NoArgs
    /\ pairs = <<>>
    /\ different_files = <<>>
    /\ idx = 0
    /\ resolved_count = 0
    /\ answer = "none"
    /\ fs0 = {}
    /\ ledger0 = NoLedger
    /\ unvisited = {}
    /\ preview = <<>>

SpecThree == InitThree /\ [][Next]_vars

\* The last two runs of main, on the directory in which two names that hold
\* the marker once reduce to the same original, and no ledger.
InitShared ==
    /\ ScanIdle
    /\ LoadIdle
    /\ CompareIdle
    /\ fs = DirMidMarker
    /\ env_ops = 0
    /\ identical_count = 0
    /\ different_count = 0
    /\ errors = <<>>
    /\ main_result = NoComparison
    /\ shown = NoShown
    /\ ledger = NoLedger
    /\ now = MaxRuns - 1
    /\ pc = "idle"
    /\ args = NoArgs
    /\ pairs = <<>>
    /\ different_files = <<>>
    /\ idx = 0
    /\ resolved_count = 0
    /\ answer = "none"
    /\ fs0 = {}
    /\ ledger0 = NoLedger
    /\ unvisited = {}
    /\ preview = <<>>

SpecShared == InitShared /\ [][Next]_vars

----------------------------------------------------------------------------
(* find_conflicted_pairs on a tree *)

ParamSet == [recursive : BOOLEAN, cross_device : BOOLEAN,
             include_local_mounts : BOOLEAN]

\* A call of find_conflicted_pairs(ScanRoot, ...) on one of the trees; main
\* has checked that ScanRoot is a directory.
InitScan ==
    /\ CompareIdle
    /\ LoadIdle
    /\ fs = DirTwoKeys
    /\ env_ops = 0
    /\ identical_count = 0
    /\ different_count = 0
    /\ errors = <<>>
    /\ main_result = NoComparison
    /\ shown = NoShown
    /\ ledger = NoLedger
    /\ now = 1
    /\ pc = "idle"
    /\ args = NoArgs
    /\ pairs = <<>>
    /\ different_files = <<>>
    /\ idx = 0
    /\ resolved_count = 0
    /\ answer = "none"
    /\ fs0 = {}
    /\ ledger0 = NoLedger
    /\ unvisited = {}
    /\ preview = <<>>
    /\ disk \in Disks
    /\ params \in ParamSet
    /\ scan_pc = "call"
    /\ cloud_mounts = {}
    /\ start_device = 0
    /\ todo = <<>>
    /\ visited = <<>>
    /\ excluded = <<>>
    /\ conflicted_pairs = <<>>
    /\ skipped_paths = <<>>
    /\ raised = <<>>

\* Lines 86-165: the preamble of find_conflicted_pairs.
ScanEnter ==
    /\ scan_pc = "call"
    /\ cloud_mounts' = CloudMounts(disk, params.cross_device)
    /\ start_device' = StartDevice(disk, ScanRoot)
    /\ todo' = IF params.recursive THEN <<ScanRoot>> ELSE <<>>
    /\ scan_pc' = IF params.recursive THEN "walk" ELSE "iterdir"
    /\ UNCHANGED <<disk, params, visited, excluded, conflicted_pairs,
                   skipped_paths, raised>>
    /\ UNCHANGED <<mainvars, cmpvars, loadvars>>

\* Lines 167-223: one iteration of the loop over os.walk(directory).  os.walk
\* (onerror=None) swallows the error of a directory it cannot list and yields
\* nothing for it, and it walks the subdirectories left in `dirs` before the
\* rest.
Walk(files, dirs) ==
    /\ scan_pc = "walk"
    /\ todo # <<>>
    /\ LET root    == Head(todo)
           listed  == root \notin disk.unreadable
           skip    == \/ SkipCloud(disk, params, cloud_mounts, root)
                      \/ SkipDevice(disk, params, start_device, root)
           result  == IF skip THEN NoResult
                      ELSE WalkFiles(disk, root, files, NoResult)
           subdirs == [i \in DOMAIN dirs |-> Join(root, dirs[i])]
           rest    == IF listed THEN WalkInto(skip, subdirs) \o Tail(todo)
                      ELSE Tail(todo)
       IN  /\ todo' = rest
           /\ scan_pc' = IF rest = <<>> THEN "returned" ELSE "walk"
           /\ visited' = IF listed THEN Append(visited, root) ELSE visited
           /\ excluded' = IF listed /\ skip THEN Append(excluded, root)
                          ELSE excluded
           /\ conflicted_pairs' = IF listed THEN conflicted_pairs \o result.pairs
                                  ELSE conflicted_pairs
           /\ skipped_paths' = IF listed THEN skipped_paths \o result.skipped
                               ELSE skipped_paths
           /\ raised' = IF listed THEN raised \o result.raised
                        ELSE Append(raised, root)
    /\ UNCHANGED <<disk, params, cloud_mounts, start_device>>
    /\ UNCHANGED <<mainvars, cmpvars, loadvars>>

\* Lines 225-239: the non-recursive scan of the directory.
ScanIterDir(items) ==
    /\ scan_pc = "iterdir"
    /\ LET result ==
              IF ScanRoot \in disk.unreadable
              THEN [NoResult EXCEPT
                      !.skipped = <<[path |-> ScanRoot,
                                     error |-> "PermissionError"]>>,
                      !.raised = <<ScanRoot>>]
              ELSE IterDir(disk, ScanRoot, items, NoResult)
       IN  /\ conflicted_pairs' = result.pairs
           /\ skipped_paths' = result.skipped
           /\ raised' = result.raised
    /\ scan_pc' = "returned"
    /\ UNCHANGED <<disk, params, cloud_mounts, start_device, todo, visited,
                   excluded>>
    /\ UNCHANGED <<mainvars, cmpvars, loadvars>>

NextScan ==
    \/ ScanEnter
    \/ \E files \in Listings(IF todo = <<>> THEN {} ELSE disk.tree[Head(todo)].files),
          dirs \in Listings(IF todo = <<>> THEN {} ELSE disk.tree[Head(todo)].dirs) :
          Walk(files, dirs)
    \/ \E items \in Listings(IF scan_pc = "iterdir"
                             THEN disk.tree[ScanRoot].files
                                     \cup disk.tree[ScanRoot].dirs
                             ELSE {}) :
          ScanIterDir(items)

SpecScan == InitScan /\ [][NextScan]_vars

----------------------------------------------------------------------------
(* compare_files on two files *)

\* A call of compare_files(a, a [conflicted], method) on two files of up to
\* MaxLen bytes each.
InitCompare ==
    /\ ScanIdle
    /\ LoadIdle
    /\ fs \in [{NameA, NameAC} -> FileContents]
    /\ args \in {[NoArgs EXCEPT !.method = m] : m \in Methods}
    /\ env_ops = 0
    /\ identical_count = 0
    /\ different_count = 0
    /\ errors = <<>>
    /\ main_result = NoComparison
    /\ shown = NoShown
    /\ ledger = NoLedger
    /\ now = 1
    /\ pc = "idle"
    /\ pairs = <<>>
    /\ different_files = <<>>
    /\ idx = 0
    /\ resolved_count = 0
    /\ answer = "none"
    /\ fs0 = {}
    /\ ledger0 = NoLedger
    /\ unvisited = {}
    /\ preview = <<>>
    /\ cmp_pc = "call"
    /\ cmp_result = NoComparison
    /\ content_reads = {}
    /\ mtimes \in [{NameA, NameAC} -> MTimes]

\* compare_files, lines 262-298
Compare ==
    /\ cmp_pc = "call"
    /\ cmp_result' = CompareFilesStat(fs, mtimes, NameA, NameAC, args.method)
    /\ content_reads' = FilesRead(fs, NameA, NameAC, args.method)
    /\ cmp_pc' = "returned"
    /\ UNCHANGED <<mainvars, scanvars, loadvars, mtimes>>

NextCompare == Compare

SpecCompare == InitCompare /\ [][NextCompare]_vars

----------------------------------------------------------------------------
(* load_existing_conflicts and save_different_files_list on the forms the  *)
(* ledger file can have                                                    *)

\* The time of the first call; the records of the file were written before.
LoadStart == 2

\* Records written by an earlier run at time 1.
OldRecordA == NewRecord(CompareFiles(DirTwoKeys, NameA, NameAC, "hash"), 1)
OldRecordB == NewRecord(CompareFiles(DirTwoKeys, NameB, NameBC, "hash"), 1)

\* A record without the key `original`.
NoOriginalRecord == [conflicted |-> NameAC, still_exists |-> TRUE]

\* The ledger file: absent, not a JSON document, a document without either
\* array, a snapshot as this program writes it, the older schema with the
\* array under `files`, a document with both keys, and documents with a
\* record that lacks its original.
LedgerFiles ==
    {NoLedger,
     [exists |-> TRUE, invalid |-> TRUE],
     [exists |-> TRUE, last_updated |-> 1],
     Snapshot(<<OldRecordB>>, 1),
     Snapshot(<<OldRecordA, OldRecordB>>, 1),
     [exists |-> TRUE, last_updated |-> 1, files |-> <<OldRecordB>>],
     [exists |-> TRUE, last_updated |-> 1, files |-> <<OldRecordA, OldRecordB>>],
     [exists |-> TRUE, last_updated |-> 1,
      conflicts |-> <<OldRecordA>>, files |-> <<OldRecordB>>],
     [exists |-> TRUE, last_updated |-> 1,
      conflicts |-> <<OldRecordB, NoOriginalRecord>>],
     [exists |-> TRUE, last_updated |-> 1,
      files |-> <<OldRecordB, NoOriginalRecord>>]}

\* The files on disk: both pairs, or the second pair without its conflicted
\* copy.
LoadDirs == {DirTwoKeys, Unlink(DirTwoKeys, NameBC)}

\* The lists main can hand to save_different_files_list on these files.
LoadResults(f) == {<<>>, <<CompareFiles(f, NameA, NameAC, "hash")>>}

InitLoad ==
    /\ ScanIdle
    /\ CompareIdle
    /\ fs \in LoadDirs
    /\ ledger \in LedgerFiles
    /\ different_files \in LoadResults(fs)
    /\ now = LoadStart
    /\ env_ops = 0
    /\ identical_count = 0
    /\ different_count = 0
    /\ errors = <<>>
    /\ main_result = NoComparison
    /\ shown = NoShown
    /\ pc = "idle"
    /\ args = NoArgs
    /\ pairs = <<>>
    /\ idx = 0
    /\ resolved_count = 0
    /\ answer = "none"
    /\ fs0 = {}
    /\ ledger0 = NoLedger
    /\ unvisited = {}
    /\ preview = <<>>
    /\ load_pc = "call"
    /\ loaded = <<>>
    /\ load_warned = FALSE

\* load_existing_conflicts, lines 305-321
LoadCall ==
    /\ load_pc \in {"call", "saved"}
    /\ loaded' = LoadExistingConflicts(ledger)
    /\ load_warned' = (load_warned \/ LoadWarns(ledger))
    /\ load_pc' = "loaded"
    /\ UNCHANGED <<mainvars, scanvars, cmpvars>>

\* save_different_files_list, lines 332-367, with the load of line 335 and
\* its warning.
SaveCall ==
    /\ load_pc \in {"call", "loaded"}
    /\ now <= MaxRuns + 1
    /\ ledger' = SaveDifferentFilesList(different_files, ledger, fs, now)
    /\ now' = now + 1
    /\ load_warned' = (load_warned \/ LoadWarns(ledger))
    /\ load_pc' = "saved"
    /\ UNCHANGED <<fs, pc, args, pairs, different_files, idx, resolved_count,
                   answer, fs0, ledger0, unvisited, preview, env_ops>>
    /\ UNCHANGED <<tallyvars, main_result, shown, scanvars, cmpvars, loaded>>

NextLoad == LoadCall \/ SaveCall

SpecLoad == InitLoad /\ [][NextLoad]_vars

----------------------------------------------------------------------------
(* Vocabulary of the properties *)

\* The run has reached its end and has written the ledger.
Saved == pc = "done" /\ ledger.exists /\ ledger.last_updated = now

BothPresent(conflict) ==
    conflict.original \in DOMAIN fs /\ conflict.conflicted \in DOMAIN fs

\* The fields compare_files produced agree.
SameComparison(r, res) ==
    /\ r.original = res.original
    /\ r.conflicted = res.conflicted
    /\ r.identical = res.identical
    /\ r.method = res.method
    /\ r.original_size = res.original_size
    /\ r.conflicted_size = res.conflicted_size
    /\ r.original_hash = res.original_hash
    /\ r.conflicted_hash = res.conflicted_hash
    /\ r.reason = res.reason

\* The last result of this run for an original path.
LastResultFor(key) ==
    different_files[CHOOSE i \in DOMAIN different_files :
        /\ different_files[i].original = key
        /\ \A j \in DOMAIN different_files :
              different_files[j].original = key => j <= i]

\* The records of the prior snapshot that this run did not observe.
Unobserved ==
    {i \in DOMAIN ledger0.conflicts :
        ledger0.conflicts[i].original \notin KeysOf(different_files)}

----------------------------------------------------------------------------
(* C1 *)

\* C1: after a merge, every record of the prior snapshot whose original path
\* is not among this run's results is still in the saved snapshot, with
\* still_exists = true and last_checked = now if both its paths exist at merge
\* time, and with still_exists = false and resolved_at = now otherwise.
C1_UnobservedRevalidated ==
    Saved =>
        \A i \in Unobserved :
            LET old == ledger0.conflicts[i]
            IN  \E j \in DOMAIN ledger.conflicts :
                    LET r == ledger.conflicts[j]
                    IN  /\ r.original = old.original
                        /\ r.conflicted = old.conflicted
                        /\ IF BothPresent(old)
                           THEN r.still_exists /\ r.last_checked = now
                           ELSE ~r.still_exists /\ r.resolved_at = now

\* A merge that found one unobserved record present and another one absent.
C1_Witness ==
    /\ Saved
    /\ \E i, k \in Unobserved :
          /\ BothPresent(ledger0.conflicts[i])
          /\ ~BothPresent(ledger0.conflicts[k])

----------------------------------------------------------------------------
(* C2 *)

\* The records that were active in the ledger when the run started and whose
\* two files had both been deleted by then.
DeletedBeforeRun ==
    {i \in DOMAIN ledger0.conflicts :
        /\ ledger0.conflicts[i].still_exists
        /\ ledger0.conflicts[i].original \notin fs0
        /\ ledger0.conflicts[i].conflicted \notin fs0}

\* C2: when a run of main ends, every record that was active in the ledger of
\* the previous run and whose two files were deleted before this run is in
\* the ledger file with still_exists = false and a resolved_at stamp,
\* whatever the scan directory holds, also when it holds no conflict pair.
C2_DeletedPairResolvedByNextRun ==
    pc = "done" =>
        \A i \in DeletedBeforeRun :
            \E j \in DOMAIN ledger.conflicts :
                /\ ledger.conflicts[j].original = ledger0.conflicts[i].original
                /\ ~ledger.conflicts[j].still_exists
                /\ ledger.conflicts[j].resolved_at # 0

----------------------------------------------------------------------------
(* C3 *)

\* C3: over all runs on the same ledger file the set of original-path keys
\* of the snapshot never shrinks, so a resolved record stays in every later
\* snapshot.
C3_KeysNeverShrink ==
    [][KeysOf(ledger.conflicts) \subseteq KeysOf(ledger'.conflicts)]_vars

\* A later run has saved a snapshot that still holds a record the earlier
\* snapshot already had as resolved.
C3_Witness ==
    /\ Saved
    /\ \E i \in DOMAIN ledger0.conflicts, j \in DOMAIN ledger.conflicts :
          /\ ~ledger0.conflicts[i].still_exists
          /\ ledger.conflicts[j].original = ledger0.conflicts[i].original
          /\ ~ledger.conflicts[j].still_exists

----------------------------------------------------------------------------
(* C4 *)

\* The records the prior snapshot held as resolved, which this run did not
\* observe and whose pair is still absent at merge time.
StillAbsent ==
    {i \in Unobserved :
        /\ ~ledger0.conflicts[i].still_exists
        /\ ledger0.conflicts[i].resolved_at # 0
        /\ ~BothPresent(ledger0.conflicts[i])}

\* C4: a merge leaves the resolved_at of a record unchanged when the record
\* was already resolved and its pair is still absent and not re-detected.
C4_ResolvedAtKept ==
    Saved =>
        \A i \in StillAbsent :
            \E j \in DOMAIN ledger.conflicts :
                /\ ledger.conflicts[j].original = ledger0.conflicts[i].original
                /\ ledger.conflicts[j].resolved_at = ledger0.conflicts[i].resolved_at

----------------------------------------------------------------------------
(* C5 *)

\* C5: the snapshot holds at most one record per original path, and after a
\* merge every original path of this run's results maps to a record that
\* carries this run's result for that path, last_seen = now and
\* still_exists = true, whatever the prior snapshot held for that path.
C5_UpsertAndUniqueKeys ==
    /\ \A i, j \in DOMAIN ledger.conflicts :
          ledger.conflicts[i].original = ledger.conflicts[j].original => i = j
    /\ Saved =>
          \A key \in KeysOf(different_files) :
              \E j \in DOMAIN ledger.conflicts :
                  LET r == ledger.conflicts[j]
                  IN  /\ SameComparison(r, LastResultFor(key))
                      /\ r.last_seen = now
                      /\ r.still_exists
                      /\ r.last_checked = 0
                      /\ r.resolved_at = 0

\* A merge has upserted a path whose prior record was resolved.
C5_Witness ==
    /\ Saved
    /\ \E i \in DOMAIN ledger0.conflicts :
          /\ ~ledger0.conflicts[i].still_exists
          /\ ledger0.conflicts[i].original \in KeysOf(different_files)

----------------------------------------------------------------------------
(* C6 *)

NumActive(conflicts) ==
    Cardinality({i \in DOMAIN conflicts : conflicts[i].still_exists})

\* C6: in every saved snapshot total_active_conflicts is the number of records
\* with still_exists = true, total_resolved_conflicts is the number of records
\* minus total_active_conflicts, and the two sum to the length of conflicts.
C6_TotalsMatchRecords ==
    ledger.exists =>
        /\ ledger.total_active_conflicts = NumActive(ledger.conflicts)
        /\ ledger.total_resolved_conflicts =
              Len(ledger.conflicts) - ledger.total_active_conflicts
        /\ ledger.total_active_conflicts + ledger.total_resolved_conflicts =
              Len(ledger.conflicts)

\* A snapshot that counts an active and a resolved record.
C6_Witness ==
    /\ Saved
    /\ ledger.total_active_conflicts >= 1
    /\ ledger.total_resolved_conflicts >= 1

----------------------------------------------------------------------------
(* C7 *)

\* A record without its timestamp fields.
StripRecord(r) ==
    [r EXCEPT !.last_seen = 0, !.last_checked = 0, !.resolved_at = 0]

\* A snapshot without its timestamp fields.
Strip(file) ==
    [file EXCEPT !.last_updated = 0,
                 !.conflicts = [i \in DOMAIN file.conflicts |->
                                   StripRecord(file.conflicts[i])]]

\* C7: merging the result set a run has just merged a second time, with the
\* file system unchanged, yields the same records, the same active and
\* resolved counts and the same record content, timestamps aside.
C7_MergeIdempotent ==
    Saved =>
        Strip(SaveDifferentFilesList(different_files, ledger, fs, now + 1))
            = Strip(ledger)

\* A merge of a non-empty result set into a ledger that also holds a record
\* the run did not observe and found absent.
C7_Witness ==
    /\ Saved
    /\ different_files # <<>>
    /\ ledger0.exists
    /\ \E i \in Unobserved : ~BothPresent(ledger0.conflicts[i])

----------------------------------------------------------------------------
(* C8 *)

\* R1: the records merged as new results by the merge that wrote the prior
\* snapshot.
PrevMerged ==
    {i \in DOMAIN ledger0.conflicts :
        ledger0.conflicts[i].last_seen = ledger0.last_updated}

\* This run's results (R2) and the previous merge's results (R1) are both
\* non-empty and have disjoint original paths.
DisjointMerges ==
    /\ Saved
    /\ ledger0.exists
    /\ PrevMerged # {}
    /\ different_files # <<>>
    /\ \A i \in PrevMerged :
          ledger0.conflicts[i].original \notin KeysOf(different_files)

\* C8 as claimed: after merging R1 and later R2 with disjoint original paths
\* the ledger holds every record of R1 and of R2, all with still_exists = true.
C8_BothSetsActive ==
    DisjointMerges =>
        /\ \A i \in PrevMerged :
              \E j \in DOMAIN ledger.conflicts :
                  /\ SameComparison(ledger.conflicts[j], ledger0.conflicts[i])
                  /\ ledger.conflicts[j].still_exists
        /\ \A k \in DOMAIN different_files :
              \E j \in DOMAIN ledger.conflicts :
                  /\ SameComparison(ledger.conflicts[j], different_files[k])
                  /\ ledger.conflicts[j].still_exists

\* C8 as amended: after merging R1 and later R2 with disjoint original paths
\* the ledger holds one record for every original path of R1 and of R2; the
\* records of R2 have still_exists = true, and a record of R1 has
\* still_exists = true exactly when both its files exist at the second merge.
C8_BothSetsKept ==
    DisjointMerges =>
        /\ \A i \in PrevMerged :
              \E j \in DOMAIN ledger.conflicts :
                  /\ SameComparison(ledger.conflicts[j], ledger0.conflicts[i])
                  /\ ledger.conflicts[j].still_exists
                        = BothPresent(ledger0.conflicts[i])
        /\ \A key \in KeysOf(different_files) :
              \E j \in DOMAIN ledger.conflicts :
                  /\ SameComparison(ledger.conflicts[j], LastResultFor(key))
                  /\ ledger.conflicts[j].still_exists

\* Two merges with disjoint results after which both sets are active.
C8_Witness ==
    /\ DisjointMerges
    /\ \A i \in PrevMerged : BothPresent(ledger0.conflicts[i])
    /\ \A j \in DOMAIN ledger.conflicts : ledger.conflicts[j].still_exists

----------------------------------------------------------------------------
(* C9, C10: what a step does to the files *)

\* The files a step creates, removes or rewrites.
ChangedFiles ==
    {p \in FileNames :
        \/ (p \in DOMAIN fs) # (p \in DOMAIN fs')
        \/ p \in DOMAIN fs /\ p \in DOMAIN fs' /\ fs[p] # fs'[p]}

\* The step is the user changing the directory, between runs or while the
\* run waits for an answer.
UserStep == pc \in Waits /\ pc' = pc

\* A deletion of the comparison pass that the claim allows: of the conflicted
\* file of the pair at the head of the loop, for which compare_files has
\* returned identical in this run.
JustifiedCompareDeletion ==
    /\ pc \in {"compare", "confirm"}
    /\ LET p == Head(pairs)
       IN  /\ ChangedFiles = {p.conflicted}
           /\ p.conflicted \notin DOMAIN fs'
           /\ main_result'.original = p.original
           /\ main_result'.conflicted = p.conflicted
           /\ main_result'.identical
           /\ args.auto_delete \/ answer' \in {"y", "yes"}
           /\ ~args.dry_run

\* A change of the resolution pass that the claim allows.
JustifiedResolution ==
    /\ pc = "choose"
    /\ answer' \in {"keep_original", "keep_conflicted"}
    /\ ChangedFiles \subseteq {different_files[idx].original,
                               different_files[idx].conflicted}

\* C9: the program changes the files only by deleting, in the comparison
\* pass, the conflicted file of a pair whose verdict in this run is identical,
\* with auto-delete on or the deletion confirmed, and dry-run off, or, in the
\* resolution pass, by acting on the pair for which the user decided
\* KeepOriginal or KeepConflicted.
C9_DeletionsJustified ==
    [][fs' # fs => UserStep \/ JustifiedCompareDeletion \/ JustifiedResolution]_vars

\* The user has just confirmed a deletion and the file is gone, and the user
\* has deleted no file.
C9_Witness ==
    /\ answer = "y"
    /\ ~args.auto_delete
    /\ env_ops = 0
    /\ main_result.identical
    /\ main_result.conflicted \in fs0
    /\ main_result.conflicted \notin DOMAIN fs

\* The pairs of this run's scan other than the pair of `conflict`.
OtherPairs(conflict) ==
    {q \in {[original |-> OriginalName(n), conflicted |-> n] :
                n \in {m \in fs0 : HasMarker(m) /\ OriginalName(m) \in fs0}} :
        q.conflicted # conflict.conflicted}

\* The resolution action of this step succeeded.
ActionSucceeded == resolved_count' = resolved_count + 1

\* C10 as claimed, for actions whose file operations succeed: KeepOriginal
\* deletes the conflicted file and leaves the original's path and content
\* unchanged; KeepConflicted ends with the conflicted file's content at the
\* original's path and nothing at the conflicted path; neither changes any
\* file of another pair.
C10_ResolutionEffects ==
    [][pc = "choose" =>
        LET conflict == different_files[idx]
        IN  /\ answer' = "keep_original" /\ ActionSucceeded =>
                  /\ conflict.conflicted \notin DOMAIN fs'
                  /\ conflict.original \notin ChangedFiles
            /\ answer' = "keep_conflicted" /\ ActionSucceeded =>
                  /\ conflict.original \in DOMAIN fs'
                  /\ fs'[conflict.original] = fs[conflict.conflicted]
                  /\ conflict.conflicted \notin DOMAIN fs'
            /\ answer' \in {"keep_original", "keep_conflicted"} /\ ActionSucceeded =>
                  \A q \in OtherPairs(conflict) :
                      /\ q.original \notin ChangedFiles
                      /\ q.conflicted \notin ChangedFiles]_vars

\* C10 as amended, for actions whose file operations succeed: KeepOriginal
\* deletes the conflicted file and leaves the original's path and content
\* unchanged; KeepConflicted ends with the conflicted file's content at the
\* original's path and nothing at the conflicted path; neither changes a file
\* other than the two files of its own pair, failed or not.
C10_ResolutionEffectsOwnPair ==
    [][pc = "choose" =>
        LET conflict == different_files[idx]
        IN  /\ answer' = "keep_original" /\ ActionSucceeded =>
                  /\ conflict.conflicted \notin DOMAIN fs'
                  /\ conflict.original \notin ChangedFiles
            /\ answer' = "keep_conflicted" /\ ActionSucceeded =>
                  /\ conflict.original \in DOMAIN fs'
                  /\ fs'[conflict.original] = fs[conflict.conflicted]
                  /\ conflict.conflicted \notin DOMAIN fs'
            /\ answer' \in {"keep_original", "keep_conflicted"} =>
                  ChangedFiles \subseteq {conflict.original, conflict.conflicted}]_vars

\* A KeepConflicted action has just succeeded on a pair whose original is
\* also the original of another pair of the scan.
C10_Witness ==
    /\ pc \in {"resolve", "prune"}
    /\ answer = "keep_conflicted"
    /\ resolved_count >= 1
    /\ LET conflict == different_files[idx - 1]
       IN  /\ conflict.original \in DOMAIN fs
           /\ conflict.conflicted \notin DOMAIN fs
           /\ \E q \in OtherPairs(conflict) : q.original = conflict.original

----------------------------------------------------------------------------
(* C11 *)

\* The snapshot written by this step holds an active record whose original
\* and conflicted fields are those of the pair.
RecordedActive(pair) ==
    \E j \in DOMAIN ledger'.conflicts :
        /\ ledger'.conflicts[j].original = pair.original
        /\ ledger'.conflicts[j].conflicted = pair.conflicted
        /\ ledger'.conflicts[j].still_exists

\* No pair behind this one in different_files has the same original path.
LastForOriginal(pair) ==
    \A i, k \in DOMAIN different_files :
        /\ different_files[i].original = pair.original
        /\ different_files[i].conflicted = pair.conflicted
        /\ different_files[k].original = pair.original
        => k <= i

\* C11 as stated: a Skip decision changes no file and the loop goes on with
\* the next pair (or ends behind the last one); a Quit decision changes no
\* file and ends the loop at once; behind the loop no pair is prompted again
\* and no file changes, so what was applied before the Quit stays applied;
\* and the ledger saved at the end of the run holds, for every pair behind
\* the Quit whose two files still exist, an active record of that pair.
C11_QuitAndSkipAsStated ==
    [][/\ pc = "choose" /\ answer' = "skip" =>
              /\ fs' = fs
              /\ idx' = idx + 1
              /\ different_files' = different_files
              /\ pc' = IF idx < Len(different_files) THEN "resolve" ELSE "prune"
       /\ pc = "choose" /\ answer' = "quit" =>
              /\ fs' = fs
              /\ resolved_count' = resolved_count
              /\ pc' = "prune"
       /\ pc \in {"prune", "save"} =>
              /\ fs' = fs
              /\ pc' \notin {"resolve", "choose"}
       /\ pc = "save" =>
              \A u \in unvisited : BothPresent(u) => RecordedActive(u)]_vars

\* C11 as amended: the same for Skip, for Quit and for the steps behind the
\* loop; and the ledger saved at the end of the run holds, for every pair
\* behind the Quit whose two files still exist, an active record under the
\* pair's original path, which is the record of that pair exactly when no
\* later pair of the list has the same original path.
C11_QuitAndSkip ==
    [][/\ pc = "choose" /\ answer' = "skip" =>
              /\ fs' = fs
              /\ idx' = idx + 1
              /\ different_files' = different_files
              /\ pc' = IF idx < Len(different_files) THEN "resolve" ELSE "prune"
       /\ pc = "choose" /\ answer' = "quit" =>
              /\ fs' = fs
              /\ resolved_count' = resolved_count
              /\ pc' = "prune"
       /\ pc \in {"prune", "save"} =>
              /\ fs' = fs
              /\ pc' \notin {"resolve", "choose"}
       /\ pc = "save" =>
              \A u \in unvisited :
                  BothPresent(u) =>
                      /\ \E j \in DOMAIN ledger'.conflicts :
                            /\ ledger'.conflicts[j].original = u.original
                            /\ ledger'.conflicts[j].still_exists
                      /\ RecordedActive(u) <=> LastForOriginal(u)]_vars

\* A run has saved the ledger after the user quit at the first pair, with
\* two pairs behind it that share their original and whose files all exist.
C11_Witness ==
    /\ Saved
    /\ \E u, v \in unvisited :
          /\ u.original = v.original
          /\ u.conflicted # v.conflicted
          /\ BothPresent(u)
          /\ BothPresent(v)

\* A run has saved the ledger after the user resolved one pair and then quit
\* at the next one, with a pair behind it whose two files still exist.
C11_ResolvedThenQuit ==
    /\ Saved
    /\ resolved_count >= 1
    /\ \E u \in unvisited : BothPresent(u)

----------------------------------------------------------------------------
(* C12 *)

\* The KeepOriginal or KeepConflicted action of this step failed: it did not
\* take the conflicted file from its path (the delete failed, or the rename
\* failed, also after the original was deleted): the file is still there, or
\* was no longer there when the action began.
ActionFailed ==
    /\ pc = "choose"
    /\ answer' \in {"keep_original", "keep_conflicted"}
    /\ \/ different_files[idx].conflicted \in DOMAIN fs'
       \/ different_files[idx].conflicted \notin DOMAIN fs

\* C12: when the delete or the rename of a KeepOriginal or KeepConflicted
\* action fails, the pair is not counted as resolved and the loop goes on
\* with the next pair (it ends only behind the last pair).
C12_FailureIsLocal ==
    [][ActionFailed =>
          /\ resolved_count' = resolved_count
          /\ idx' = idx + 1
          /\ different_files' = different_files
          /\ pc' = IF idx < Len(different_files) THEN "resolve" ELSE "prune"]_vars

\* The rename of a KeepConflicted action has failed after the original was
\* deleted, nothing is counted, and the loop is at the next pair.
C12_Witness ==
    /\ pc = "resolve"
    /\ answer = "keep_conflicted"
    /\ resolved_count = 0
    /\ idx = 2
    /\ different_files[1].original \notin DOMAIN fs
    /\ different_files[1].conflicted \in DOMAIN fs

\* A KeepOriginal action has failed on a conflicted file the user deleted
\* during the prompt: nothing is counted and the loop is at the next pair.
C12_FailedOnVanished ==
    /\ pc = "resolve"
    /\ answer = "keep_original"
    /\ resolved_count = 0
    /\ idx = 2
    /\ env_ops = 1
    /\ different_files[1].original \in DOMAIN fs
    /\ different_files[1].conflicted \notin DOMAIN fs

----------------------------------------------------------------------------
(* C13 *)

\* main is about to hand different_files to the ledger merge after a live
\* resolution pass.
AfterLiveResolution ==
    /\ pc = "save"
    /\ args.resolve
    /\ ~args.dry_run
    /\ idx > 1

\* C13: after a live resolution pass, whatever was decided and whether or not
\* an action succeeded, the list of differing pairs handed to the ledger
\* merge holds only pairs whose original and conflicted files both exist.
C13_MergedPairsExist ==
    AfterLiveResolution =>
        \A i \in DOMAIN different_files : BothPresent(different_files[i])

----------------------------------------------------------------------------
(* C14 *)

\* C14: in a run with dry-run set, whatever the other flags and the user's
\* input, no step creates, deletes or rewrites a file and no decision is
\* asked for, and the resolution preview presents each differing pair whose
\* two files exist exactly once and no other pair.
C14_DryRunChangesNothing ==
    [][args.dry_run =>
          /\ fs' = fs
          /\ answer' = "none"
          /\ pc = "preview" =>
                /\ \A i \in DOMAIN different_files :
                      LET c == different_files[i]
                          n == Cardinality({k \in DOMAIN preview' :
                                              preview'[k] = c})
                      IN  n = IF BothPresent(c) THEN 1 ELSE 0
                /\ \A k \in DOMAIN preview' :
                      \E i \in DOMAIN different_files :
                          preview'[k] = different_files[i]]_vars

\* A dry run with auto-delete and resolve has ended with every file still in
\* place: it has presented two differing pairs, or one differing pair next
\* to an identical conflicted copy.
C14_Witness ==
    /\ pc = "done"
    /\ args.dry_run /\ args.auto_delete /\ args.resolve
    /\ fs0 = DOMAIN fs
    /\ \/ Len(preview) = 2
       \/ /\ Len(preview) = 1
          /\ \E p \in DOMAIN fs :
                /\ HasMarker(p)
                /\ OriginalName(p) \in DOMAIN fs
                /\ fs[p] = fs[OriginalName(p)]

----------------------------------------------------------------------------
(* Vocabulary of the scanner properties *)

ScanReturned == scan_pc = "returned"

\* The directories whose entries the scan went through.
ScannedDirs ==
    IF params.recursive
    THEN {visited[i] : i \in DOMAIN visited} \ {excluded[i] : i \in DOMAIN excluded}
    ELSE {ScanRoot} \ disk.unreadable

\* How often the result list holds the pair.
PairCount(original, conflicted) ==
    Cardinality({i \in DOMAIN conflicted_pairs :
                    conflicted_pairs[i] =
                        [original |-> original, conflicted |-> conflicted]})

\* The sequence without its k-th element.
RemoveAt(seq, k) == SubSeq(seq, 1, k - 1) \o SubSeq(seq, k + 1, Len(seq))

\* The path lies in the directory or in a directory beneath it.
Beneath(path, dir) == StartsWith(path, dir \o <<Sep>>)

----------------------------------------------------------------------------
(* C15 *)

\* C15: when a scan without file system errors returns, for every two regular
\* files A and B of a scanned directory such that B's name is A's name plus
\* the marker, the result list holds the pair (A, B) exactly once, whatever
\* the order in which directories and files were enumerated.
C15_ScannerCompleteUnique ==
    ScanReturned /\ disk.stat_err = {} /\ disk.unreadable = {} =>
        \A d \in ScannedDirs :
            \A A, B \in disk.tree[d].files :
                B = A \o <<Marker>> => PairCount(Join(d, A), Join(d, B)) = 1

----------------------------------------------------------------------------
(* C16 *)

\* C16: every pair of the result list has a conflicted file whose name holds
\* the marker and an original whose path is the conflicted file's path with
\* exactly one occurrence of the marker removed, and that original is an
\* existing regular file.
C16_PairDetectionRule ==
    ScanReturned =>
        \A i \in DOMAIN conflicted_pairs :
            LET pair == conflicted_pairs[i]
            IN  /\ \E k \in DOMAIN pair.conflicted :
                      /\ pair.conflicted[k] = Marker
                      /\ pair.original = RemoveAt(pair.conflicted, k)
                /\ IsFile(disk, pair.original)

----------------------------------------------------------------------------
(* C17, C18 *)

\* The directory is under cloud storage, as is_under_cloud_storage decides it
\* on the mounts of the system.
UnderCloud(d) == IsUnderCloudStorage(d, GetMountPoints(disk))

\* The directory is on another device than the scan root.
OtherDevice(d) == disk.dev[d] # disk.dev[ScanRoot]

\* The directory is one the claim calls excluded.
ClaimExcluded(d) ==
    /\ params.recursive
    /\ ~params.cross_device
    /\ UnderCloud(d) \/ (~params.include_local_mounts /\ OtherDevice(d))

\* C17: in a recursive scan with cross-device off, for a directory that is
\* under cloud storage, or on another device than the scan root without
\* include-local-mounts, the result list never holds a pair from that
\* directory or from a directory beneath it, and no directory beneath it is
\* ever visited.
C17_ExclusionPrunes ==
    \A d \in DOMAIN disk.tree :
        ClaimExcluded(d) =>
            /\ \A i \in DOMAIN conflicted_pairs :
                  ~Beneath(conflicted_pairs[i].conflicted, d)
            /\ \A j \in DOMAIN visited : ~Beneath(visited[j], d)

\* A scan has returned pairs and has skipped a directory on another device
\* whose subdirectory is back on the device of the scan root and under no
\* cloud storage.
C17_Witness ==
    /\ ScanReturned
    /\ conflicted_pairs # <<>>
    /\ DirC \in DOMAIN disk.tree
    /\ ClaimExcluded(DirC)
    /\ ~UnderCloud(DirCS) /\ ~OtherDevice(DirCS)

\* C18: in a recursive scan, a visited directory is skipped never with
\* cross-device on (and every directory of the tree that can be listed is
\* visited); exactly when it is under cloud storage with cross-device off and
\* include-local-mounts on; and exactly when it is under cloud storage or on
\* another device than the scan root with both off.
C18_BoundaryPolicy ==
    ScanReturned /\ params.recursive =>
        /\ \A j \in DOMAIN visited :
              LET d == visited[j]
              IN  (\E i \in DOMAIN excluded : excluded[i] = d)
                    = IF params.cross_device THEN FALSE
                      ELSE IF params.include_local_mounts THEN UnderCloud(d)
                      ELSE UnderCloud(d) \/ OtherDevice(d)
        /\ params.cross_device =>
              {visited[j] : j \in DOMAIN visited}
                  = (DOMAIN disk.tree) \ disk.unreadable

\* A scan with cross-device off and include-local-mounts on has returned: it
\* went through a directory on another device and skipped a cloud mount.
C18_Witness ==
    /\ ScanReturned
    /\ params.recursive /\ ~params.cross_device /\ params.include_local_mounts
    /\ DirM \in ScannedDirs /\ OtherDevice(DirM) /\ ~UnderCloud(DirM)
    /\ \E i \in DOMAIN excluded : excluded[i] = DirC /\ ~OtherDevice(DirC)

----------------------------------------------------------------------------
(* C19 *)

\* C19: when a scan returns, recursive or not, every path on which a file
\* system call raised has a skip entry with that path and the error text,
\* and the result list holds every pair of a scanned directory whose two
\* files are regular files on which no call raises, also when the pair was
\* enumerated after the entry that raised.
C19_ErrorsDoNotAbort ==
    ScanReturned =>
        /\ \A i \in DOMAIN raised :
              \E k \in DOMAIN skipped_paths :
                  /\ skipped_paths[k].path = raised[i]
                  /\ skipped_paths[k].error = "PermissionError"
        /\ \A d \in ScannedDirs :
              \A B \in disk.tree[d].files :
                  LET A == OriginalName(B)
                  IN  /\ HasMarker(B)
                      /\ IsFile(disk, Join(d, A))
                      /\ Join(d, A) \notin disk.stat_err
                      /\ Join(d, B) \notin disk.stat_err
                      => PairCount(Join(d, A), Join(d, B)) >= 1

----------------------------------------------------------------------------
(* C20 *)

\* C20: when compare_files is called on two files of different sizes, with
\* either method, it returns identical = false with the reason naming the
\* different sizes, it has read the content of no file, and the result holds
\* no original_hash and no conflicted_hash.
C20_SizeFastPath ==
    cmp_pc = "returned" /\ Len(fs[NameA]) # Len(fs[NameAC]) =>
        /\ ~cmp_result.identical
        /\ cmp_result.reason = "Different file sizes"
        /\ content_reads = {}
        /\ cmp_result.original_hash = 0
        /\ cmp_result.conflicted_hash = 0

\* compare_files has returned for two files of different sizes one of which
\* is a prefix of the other, with the hash method.
C20_Witness ==
    /\ cmp_pc = "returned"
    /\ cmp_result.method = "hash"
    /\ cmp_result.original_size = 1
    /\ cmp_result.conflicted_size = 2
    /\ fs[NameAC][1] = fs[NameA][1]

----------------------------------------------------------------------------
(* C21 *)

\* C21: when compare_files has returned for two readable files, the identical
\* flag is the one either method returns on these files: it is true when the
\* contents are byte-identical and false when the files have the same size
\* and differ in some byte; the result carries the size and the modification
\* time of both files.
C21_MethodsAgree ==
    cmp_pc = "returned" =>
        /\ \A m \in Methods :
              CompareFiles(fs, NameA, NameAC, m).identical = cmp_result.identical
        /\ ByteEqual(fs[NameA], fs[NameAC]) => cmp_result.identical
        /\ (/\ Len(fs[NameA]) = Len(fs[NameAC])
            /\ \E i \in 1..Len(fs[NameA]) : fs[NameA][i] # fs[NameAC][i])
               => ~cmp_result.identical
        /\ cmp_result.original_size = Len(fs[NameA])
        /\ cmp_result.conflicted_size = Len(fs[NameAC])
        /\ cmp_result.original_mtime = mtimes[NameA]
        /\ cmp_result.conflicted_mtime = mtimes[NameAC]

\* compare_files has returned, with the hash method, for two files of two
\* bytes that differ in the last byte only and have different modification
\* times.
C21_Witness ==
    /\ cmp_pc = "returned"
    /\ cmp_result.method = "hash"
    /\ Len(fs[NameA]) = 2 /\ Len(fs[NameAC]) = 2
    /\ fs[NameA][1] = fs[NameAC][1]
    /\ fs[NameA][2] # fs[NameAC][2]
    /\ mtimes[NameA] # mtimes[NameAC]
    /\ ~cmp_result.identical

----------------------------------------------------------------------------
(* C22 *)

\* compare_files raises for the pair at the head of the loop.
CompareRaised ==
    /\ pc = "compare"
    /\ errors' = Append(errors, Head(pairs))

\* C22: when compare_files raises for a pair, no file is deleted, the pair
\* is not appended to different_files and is counted neither as identical
\* nor as different, and the loop goes on with the pairs behind it: the next
\* one is compared, or the run proceeds as after any last pair.
C22_CompareErrorIsLocal ==
    [][CompareRaised =>
          /\ fs' = fs
          /\ different_files' = different_files
          /\ identical_count' = identical_count
          /\ different_count' = different_count
          /\ pairs' = Tail(pairs)
          /\ pc' = IF Tail(pairs) # <<>> THEN "compare"
                   ELSE AfterCompare(args, different_files)]_vars

\* The comparison of the first pair has raised, both its files are on disk,
\* nothing is counted, and the loop is at the next pair.
C22_Witness ==
    /\ pc = "compare"
    /\ Len(errors) = 1
    /\ pairs # <<>>
    /\ errors[1].original \in DOMAIN fs
    /\ errors[1].conflicted \in DOMAIN fs
    /\ different_files = <<>>
    /\ identical_count = 0
    /\ different_count = 0

\* The comparison of the second pair has raised on a file the user deleted
\* while main waited for the confirmation of the first pair.
C22_Vanished ==
    /\ Len(errors) = 1
    /\ identical_count = 1
    /\ env_ops = 1
    /\ answer \in {"y", "n"}
    /\ \/ errors[1].original \notin DOMAIN fs
       \/ errors[1].conflicted \notin DOMAIN fs

----------------------------------------------------------------------------
(* C23 *)

\* The ledger file is a document whose array holds a record without the key
\* `original`.
RecordLacksOriginal(file) ==
    /\ file.exists
    /\ ~JsonLoadRaises(file)
    /\ \E key \in {"conflicts", "files"} :
          /\ key \in DOMAIN file
          /\ \E i \in DOMAIN file[key] : "original" \notin DOMAIN file[key][i]

\* The ledger file is a well-formed document of the older schema.
LegacyFile(file) ==
    /\ file.exists
    /\ ~JsonLoadRaises(file)
    /\ "conflicts" \notin DOMAIN file
    /\ "files" \in DOMAIN file
    /\ ~RecordLacksOriginal(file)

\* C23: load_existing_conflicts returns (it does not raise); the returned
\* map is empty when the file is absent, when it is not a JSON document and
\* when one of its records lacks the key `original`; it holds the records of
\* the array `files` when the document has no `conflicts`; and every file
\* written by save_different_files_list is a document with the array under
\* `conflicts` and without `files`.
C23_LoadTolerance ==
    /\ load_pc = "loaded" =>
          /\ ~ledger.exists => loaded = <<>> /\ ~load_warned
          /\ ledger.exists /\ JsonLoadRaises(ledger) => loaded = <<>>
          /\ RecordLacksOriginal(ledger) => loaded = <<>>
          /\ LegacyFile(ledger) =>
                /\ {loaded[i] : i \in DOMAIN loaded}
                      = {ledger.files[i] : i \in DOMAIN ledger.files}
                /\ Len(loaded) = Len(ledger.files)
    /\ now > LoadStart =>
          /\ ledger.exists
          /\ ~JsonLoadRaises(ledger)
          /\ "conflicts" \in DOMAIN ledger
          /\ "files" \notin DOMAIN ledger

\* load_existing_conflicts has returned the two records of a file of the
\* older schema.
C23_Witness ==
    /\ load_pc = "loaded"
    /\ now = LoadStart
    /\ LegacyFile(ledger)
    /\ Len(loaded) = 2

\* Other cases of C23 that the model reaches: a file that is not a document
\* has been loaded, and a file of the older schema has been saved.
C23_MalformedLoaded ==
    load_pc = "loaded" /\ ledger.exists /\ JsonLoadRaises(ledger) /\ load_warned
C23_LackingLoaded ==
    load_pc = "loaded" /\ RecordLacksOriginal(ledger) /\ load_warned
C23_LegacySaved ==
    /\ load_pc = "saved"
    /\ now = LoadStart + 1
    /\ Len(loaded) = 2
    /\ \A i \in DOMAIN loaded : loaded[i].original \in KeysOf(ledger.conflicts)

----------------------------------------------------------------------------
(* C24 *)

\* C24: in the snapshot a run has just saved, every record with
\* still_exists = true has its original and its conflicted file on disk.
C24_ActiveMeansPresent ==
    Saved =>
        \A i \in DOMAIN ledger.conflicts :
            ledger.conflicts[i].still_exists => BothPresent(ledger.conflicts[i])

----------------------------------------------------------------------------
(* C25 *)

\* The snapshot holds a record whose original and conflicted fields are
\* those of the pair.
Recorded(pair) ==
    \E j \in DOMAIN ledger.conflicts :
        /\ ledger.conflicts[j].original = pair.original
        /\ ledger.conflicts[j].conflicted = pair.conflicted

\* C25 as stated: every differing pair handed to save_different_files_list
\* has, in the saved snapshot, a record with its original and its conflicted
\* path; no two of the pairs share an original path.
C25_NoPairLost ==
    Saved =>
        /\ \A i \in DOMAIN different_files : Recorded(different_files[i])
        /\ \A i, k \in DOMAIN different_files :
              different_files[i].original = different_files[k].original => i = k

\* C25 as amended: a differing pair handed to save_different_files_list has
\* a record with its original and its conflicted path in the saved snapshot
\* exactly when no later pair of the list has the same original path; that
\* record has still_exists = true.
C25_LastPairPerOriginal ==
    Saved =>
        \A i \in DOMAIN different_files :
            /\ Recorded(different_files[i])
                  <=> \A k \in DOMAIN different_files :
                         k > i => different_files[k].original
                                     # different_files[i].original
            /\ \A j \in DOMAIN ledger.conflicts :
                  /\ ledger.conflicts[j].original = different_files[i].original
                  /\ ledger.conflicts[j].conflicted = different_files[i].conflicted
                  => ledger.conflicts[j].still_exists

\* A run has saved the ledger after handing over two differing pairs whose
\* conflicted names hold the marker once and reduce to the same original.
C25_Witness ==
    /\ Saved
    /\ Len(different_files) = 2
    /\ different_files[1].original = NameAX
    /\ different_files[2].original = NameAX
    /\ different_files[1].conflicted # different_files[2].conflicted

----------------------------------------------------------------------------
(* C26 *)

\* The content of the version the user chose to keep at the pair of this
\* resolution step, as it was when the prompt was shown: the original's for
\* KeepOriginal, the conflicted file's for KeepConflicted.
KeptContent ==
    IF answer' = "keep_original" THEN shown.original ELSE shown.conflicted

\* The file of the version chosen to be kept is on disk when the action
\* begins.
KeptPresent ==
    IF answer' = "keep_original"
    THEN different_files[idx].original \in DOMAIN fs
    ELSE different_files[idx].conflicted \in DOMAIN fs

\* After this step the kept content is at the original's path or at the
\* conflicted path.
KeptSurvives ==
    LET conflict == different_files[idx]
    IN  \/ /\ conflict.original \in DOMAIN fs'
           /\ fs'[conflict.original] = KeptContent
        \/ /\ conflict.conflicted \in DOMAIN fs'
           /\ fs'[conflict.conflicted] = KeptContent

\* C26 as stated: after a KeepOriginal or KeepConflicted action, whether its
\* unlink and rename succeeded or failed, the content of the version chosen
\* to be kept is on disk at the original's path or at the conflicted path.
C26_KeptVersionSurvives ==
    [][pc = "choose" /\ answer' \in {"keep_original", "keep_conflicted"} =>
          KeptSurvives]_vars

\* C26 as amended: after a KeepOriginal or KeepConflicted action that began
\* with the file of the version chosen to be kept on disk, whether its unlink
\* and rename succeeded or failed, the content of that version is on disk at
\* the original's path or at the conflicted path.
C26_KeptVersionSurvivesIfPresent ==
    [][/\ pc = "choose"
       /\ answer' \in {"keep_original", "keep_conflicted"}
       /\ KeptPresent
       => KeptSurvives]_vars

\* A KeepConflicted action has deleted the original and its rename has
\* failed: the kept version is still at the conflicted path, and only there.
C26_Witness ==
    /\ answer = "keep_conflicted"
    /\ idx > 1
    /\ different_files[idx - 1].original \notin DOMAIN fs
    /\ different_files[idx - 1].conflicted \in DOMAIN fs
    /\ fs[different_files[idx - 1].conflicted] = <<2>>

\* The user has deleted a file during a prompt, the action chosen at that
\* prompt has run, and neither file of its pair is left.
C26_BothGone ==
    /\ answer \in {"keep_original", "keep_conflicted"}
    /\ idx = 2
    /\ env_ops = 1
    /\ resolved_count <= 1
    /\ different_files[1].original \notin DOMAIN fs
    /\ different_files[1].conflicted \notin DOMAIN fs

----------------------------------------------------------------------------
(* C27 *)

\* The pairs find_conflicted_pairs returns for the same root and the same
\* boundary flags with recursive = False, when iterdir yields the entries of
\* the root in the order `items`.
NonRecursivePairs(items) ==
    IF ScanRoot \in disk.unreadable THEN <<>>
    ELSE IterDir(disk, ScanRoot, items, NoResult).pairs

\* The orders in which iterdir can yield the entries of the root.
RootListings ==
    Listings(disk.tree[ScanRoot].files \cup disk.tree[ScanRoot].dirs)

\* The result list of the recursive scan holds every pair of the
\* non-recursive scan.
ExtendsNonRecursive ==
    \A items \in RootListings :
        \A k \in DOMAIN NonRecursivePairs(items) :
            \E i \in DOMAIN conflicted_pairs :
                conflicted_pairs[i] = NonRecursivePairs(items)[k]

\* The recursive scan skips the root itself: cross-device is off and the root
\* is under cloud storage.
RootExcluded == ~params.cross_device /\ UnderCloud(ScanRoot)

\* C27 as stated: when a recursive scan has returned, its result holds every
\* pair the non-recursive scan finds for the same root and flags, also when
\* the root is under a cloud-storage folder or mount.
C27_RecursiveExtends ==
    ScanReturned /\ params.recursive => ExtendsNonRecursive

\* C27 as amended: when a recursive scan has returned, its result holds
\* every pair the non-recursive scan finds for the same root and flags,
\* unless cross-device is off and the root is under cloud storage; then the
\* recursive scan has skipped the root and returns no pair at all.
C27_RecursiveExtendsUnlessRootExcluded ==
    ScanReturned /\ params.recursive =>
        IF RootExcluded THEN conflicted_pairs = <<>>
        ELSE ExtendsNonRecursive

\* A recursive scan has returned pairs from the root and from a directory
\* beneath it; the non-recursive scan finds a pair in the root.
C27_Witness ==
    /\ ScanReturned
    /\ params.recursive
    /\ ~RootExcluded
    /\ \E items \in RootListings : NonRecursivePairs(items) # <<>>
    /\ \E i \in DOMAIN conflicted_pairs :
          Beneath(conflicted_pairs[i].conflicted, DirM)

\* A recursive scan whose root is under a cloud mount has returned nothing
\* where the non-recursive scan finds a pair.
C27_RootSkipped ==
    /\ ScanReturned
    /\ params.recursive
    /\ RootExcluded
    /\ conflicted_pairs = <<>>
    /\ \E items \in RootListings : NonRecursivePairs(items) # <<>>

----------------------------------------------------------------------------
(* C28 *)

\* The directory is one of the mounts or lies beneath one, by whole path
\* components.
WithinMount(d, mount_points) ==
    \E mount \in mount_points : d = mount \/ Beneath(d, mount)

\* The path goes through a Library/CloudStorage or Library/Mobile Documents
\* container.
InContainer(d) ==
    \E i \in DOMAIN d : d[i] \in {MobileDocuments, CloudStorage}

\* C28: a directory for which the scan got true from is_under_cloud_storage
\* is a detected mount or lies beneath one by whole path components, or is in
\* a cloud container; a sibling of a mount whose path only begins with the
\* characters of the mount path is not excluded.
C28_ExclusionByComponents ==
    \A j \in DOMAIN visited :
        IsUnderCloudStorage(visited[j], cloud_mounts) =>
            WithinMount(visited[j], cloud_mounts) \/ InContainer(visited[j])

====
